---------------------------- MODULE Spec2Model ----------------------------
(***************************************************************************)
(* Model of FilteringFlow (filtering_flow.cpp): the four sensor buffers,   *)
(* the temporal synchronizer ValidLidarData, the initialization of the     *)
(* filter and the orchestration loop of Run.                               *)
(*                                                                         *)
(* Timestamps are integers in units of 0.05 s, so the synchronizer's       *)
(* tolerance of 0.05 s is Tol = 1.  A sample is a record [id, time]; ids   *)
(* number the samples of a channel in arrival order and play no part in    *)
(* the program's decisions.                                                *)
(***************************************************************************)
EXTENDS Integers, Sequences, FiniteSets, TLC

\* ------------------------------------------------------------ bounds
\* samples each producer delivers over a run of the model
MaxRaw == 3
\* index of the last lidar frame the producers deliver
MaxFrame == 2
\* failed calibration lookups that are counted
MaxLookup == 2
\* buffer length and largest timestamp of the synchronizer's own specification
MaxSyncLen == 2
MaxSyncTime == 4

\* the 0.05 s window of ValidLidarData, in units of 0.05 s
Tol == 1

\* the 0.1 s between two lidar frames (10 Hz), in units of 0.05 s
FramePeriod == 2

\* largest timestamp a producer stamps
MaxTime == FramePeriod * MaxFrame

VARIABLES
    imu_raw_data_buff,        \* std::deque<IMUData>   imu_raw_data_buff_
    cloud_data_buff,          \* std::deque<CloudData> cloud_data_buff_
    gnss_data_buff,           \* std::deque<PoseData>  gnss_data_buff_
    imu_synced_data_buff,     \* std::deque<IMUData>   imu_synced_data_buff_
    current_imu_raw_data,
    current_cloud_data,
    current_gnss_data,
    current_imu_synced_data,
    calibration_received,     \* the static flag of InitCalibration
    lidar_to_imu,             \* lidar_to_imu_: the LookupData call that wrote it
    has_inited,               \* Filtering::has_inited_
    filter_time,              \* Filtering::GetTime()
    pc,                       \* position of the worker inside Run
    produced,                 \* per channel: samples delivered, next stamp or frame
    lookups,                  \* LookupData calls so far
    updated,                  \* history: samples passed to Filtering::Update
    discarded,                \* history: samples dropped by InitLocalization
    init_primary,             \* InitLocalization: what the scan-based Init returned
    init_fallback,            \* InitLocalization: whether the fallback Init was called
    init_runs,                \* history: executions of InitLocalization
    lidar_used,               \* history: clouds passed to Init or Correct
    drain_start,              \* history: Len(updated) when the drain began
    last_valid,               \* history: what the last ValidLidarData returned
    out,                      \* what the step just taken published, in order
    called                    \* the Filtering calls of the step just taken

vars == << imu_raw_data_buff, cloud_data_buff, gnss_data_buff,
           imu_synced_data_buff, current_imu_raw_data, current_cloud_data,
           current_gnss_data, current_imu_synced_data, calibration_received,
           lidar_to_imu, has_inited, filter_time, pc, produced, lookups, updated,
           discarded, init_primary, init_fallback, init_runs, lidar_used,
           drain_start, last_valid, out, called >>

buffs == << imu_raw_data_buff, cloud_data_buff, gnss_data_buff,
            imu_synced_data_buff >>

currents == << current_imu_raw_data, current_cloud_data, current_gnss_data,
               current_imu_synced_data >>

history == << updated, discarded, init_primary, init_fallback, init_runs,
             lidar_used, drain_start, last_valid >>

\* a default-constructed sample: time 0, no identity
NoSample == [id |-> 0, time |-> 0]

Channels == {"raw", "cloud", "gnss", "synced"}

\* ------------------------------------------------------------ helpers
NonDecreasing(ts) == \A i \in 1..(Len(ts) - 1) : ts[i] <= ts[i + 1]

Times(s) == [i \in 1..Len(s) |-> s[i].time]

Ids(s) == {s[i].id : i \in 1..Len(s)}

\* the batches a producer may deliver: at most k stamps, non-decreasing, from lo
TimeSeqs(k, lo, hi) ==
    {ts \in UNION {[1..n -> lo..hi] : n \in 0..k} : NonDecreasing(ts)}

\* the batches the raw subscriber may deliver: stamps grow from sample to sample
Increasing(ts) == \A i \in 1..(Len(ts) - 1) : ts[i] < ts[i + 1]

RawBatches(k, lo) == {ts \in TimeSeqs(k, lo, MaxTime) : Increasing(ts)}

Stamp(ts, n0) == [i \in 1..Len(ts) |-> [id |-> n0 + i, time |-> ts[i]]]


\* ------------------------------------------------------------ HasData
HasInited == has_inited

HasIMUData == imu_raw_data_buff # << >>

HasLidarData ==
    /\ cloud_data_buff # << >>
    /\ gnss_data_buff # << >>
    /\ imu_synced_data_buff # << >>

\* (mutant) uninitialized, a cloud alone keeps the loop going
HasDataCloudOnly ==
    IF ~HasInited
    THEN cloud_data_buff # << >>
    ELSE ~(/\ imu_raw_data_buff = << >>
           /\ (\/ cloud_data_buff = << >>
               \/ gnss_data_buff = << >>
               \/ imu_synced_data_buff = << >>))

\* (mutant) once initialized, only the raw buffer keeps the loop going
HasDataRawOnly ==
    IF ~HasInited
    THEN ~(\/ cloud_data_buff = << >>
           \/ gnss_data_buff = << >>
           \/ imu_synced_data_buff = << >>)
    ELSE imu_raw_data_buff # << >>

HasData ==
    IF ~HasInited
    THEN ~(\/ cloud_data_buff = << >>
           \/ gnss_data_buff = << >>
           \/ imu_synced_data_buff = << >>)
    ELSE ~(/\ imu_raw_data_buff = << >>
           /\ (\/ cloud_data_buff = << >>
               \/ gnss_data_buff = << >>
               \/ imu_synced_data_buff = << >>))

\* ------------------------------------------------------------ ValidLidarData
\* the three tests of the window, on diff_gnss_time and diff_imu_time
\* (mutant) a cloud front older than the synced front's window is kept
DropCloudGnssOnly(diff_gnss_time, diff_imu_time) == diff_gnss_time < -Tol

DropCloud(diff_gnss_time, diff_imu_time) ==
    diff_gnss_time < -Tol \/ diff_imu_time < -Tol

\* (mutant) a difference of exactly the tolerance is rejected
DropGnssAtTol(diff_gnss_time) == diff_gnss_time >= Tol

DropGnss(diff_gnss_time) == diff_gnss_time > Tol

\* (mutant) a synced front older than the window is accepted
DropSyncedNever(diff_imu_time) == FALSE

DropSynced(diff_imu_time) == diff_imu_time > Tol

\* which return of ValidLidarData is taken for the fronts c, g, s
Verdict(c, g, s) ==
    LET diff_gnss_time == c.time - g.time
        diff_imu_time == c.time - s.time
    IN  IF DropCloud(diff_gnss_time, diff_imu_time) THEN "cloud"
        ELSE IF DropGnss(diff_gnss_time) THEN "gnss"
        ELSE IF DropSynced(diff_imu_time) THEN "synced"
        ELSE "valid"

\* the buffers a verdict pops
\* (mutant) an accepted cloud front stays in its buffer
PopsCloudInvalidOnly(v) == v = "cloud"

\* (mutant) the cloud front goes with a stale gnss front
PopsCloudOnGnss(v) == v \in {"cloud", "gnss", "valid"}

PopsCloud(v) == v \in {"cloud", "valid"}

\* (mutant) a stale synced front is reported and left in the buffer
PopsSyncedValidOnly(v) == v = "valid"

\* (mutant) the stale gnss front is reported and left in the buffer
PopsGnssValidOnly(v) == v = "valid"

PopsGnss(v) == v \in {"gnss", "valid"}

PopsSynced(v) == v \in {"synced", "valid"}

\* one call of ValidLidarData returning `result`
ValidLidarData(result) ==
    LET c == Head(cloud_data_buff)
        g == Head(gnss_data_buff)
        s == Head(imu_synced_data_buff)
        v == Verdict(c, g, s)
    IN  /\ current_cloud_data' = c
        /\ current_gnss_data' = g
        /\ current_imu_synced_data' = s
        /\ cloud_data_buff' =
               IF PopsCloud(v) THEN Tail(cloud_data_buff) ELSE cloud_data_buff
        /\ gnss_data_buff' =
               IF PopsGnss(v) THEN Tail(gnss_data_buff) ELSE gnss_data_buff
        /\ imu_synced_data_buff' =
               IF PopsSynced(v) THEN Tail(imu_synced_data_buff)
               ELSE imu_synced_data_buff
        /\ result = (v = "valid")
        /\ last_valid' = IF result THEN "valid" ELSE "invalid"

\* ------------------------------------------------------------ Filtering
\* Filtering::Update: refuses a sample older than the filter's clock
UpdateOk(imu) == imu.time >= filter_time

FilterTimeAfterUpdate(imu) ==
    IF UpdateOk(imu) THEN imu.time ELSE filter_time

\* a call of Filtering: the operation, the sample passed, the value returned
FilterCall(op, sample, ret) ==
    [op |-> op, id |-> sample.id, time |-> sample.time, ret |-> ret]

\* UpdateLocalization: Filtering::Update on the current raw sample
UpdateLocalizationCalls(imu) == << FilterCall("Update", imu, UpdateOk(imu)) >>

\* ------------------------------------------------------------ publishers
\* PublishLidarOdom: the lidar pose, stamped with the cloud's time
LidarOdom(cloud) == [sink |-> "laser_odom", time |-> cloud.time]

\* PublishFusionOdom: tf and fused odometry, stamped with the raw sample's time
FusionOdom(imu) == [sink |-> "fused_odom", time |-> imu.time]

\* (mutant) the fused pose is published whatever Update returned
UpdateLocalizationOutAlways(imu) == << FusionOdom(imu) >>

\* UpdateLocalization: publish after an Update that returned true
UpdateLocalizationOut(imu) ==
    IF UpdateOk(imu) THEN << FusionOdom(imu) >> ELSE << >>

\* (mutant) the lidar pose is published after a successful Correct only
CorrectLocalizationOutOnSuccess(ok) ==
    IF ok
    THEN << LidarOdom(current_cloud_data), FusionOdom(current_imu_raw_data) >>
    ELSE << >>

\* CorrectLocalization: the lidar pose always, the fused pose after a success
CorrectLocalizationOut(ok) ==
    << LidarOdom(current_cloud_data) >>
        \o (IF ok THEN << FusionOdom(current_imu_raw_data) >> ELSE << >>)

\* the calls of PublishGlobalMap and PublishLocalMap, each of which publishes
\* its map when Filtering has a new one and the topic has subscribers
PublishMaps == << [sink |-> "maps", time |-> 0] >>

\* ------------------------------------------------------------ InitLocalization
\* the discard loop: pop while the front is older than the seeding sample
\* (mutant) a sample stamped as the seeding sample is discarded too
RECURSIVE DiscardNotNewer(_, _)
DiscardNotNewer(buff, t) ==
    IF buff # << >> /\ Head(buff).time <= t
    THEN DiscardNotNewer(Tail(buff), t)
    ELSE buff

RECURSIVE DiscardOlder(_, _)
DiscardOlder(buff, t) ==
    IF buff # << >> /\ Head(buff).time < t
    THEN DiscardOlder(Tail(buff), t)
    ELSE buff

\* line 218: the fallback Init is the else branch of the scan-based Init
\* (mutant) the fallback Init follows the scan-based Init unconditionally
FallbackAlways(primary_ok) == TRUE

FallbackDue(primary_ok) == ~primary_ok

\* ------------------------------------------------------------ Run
\* the sample popped ahead of the triple goes back into the buffer
PutBack(buff, imu) == Append(buff, imu)

\* (mutant) a sample stamped as the triple is not put back
PutBackNewer(imu, cloud) == imu.time > cloud.time

\* line 77: whether the current raw sample is put back after the drain
PutBackDue(imu, cloud) == imu.time >= cloud.time

\* (mutant) a sample stamped as the triple is propagated before the correction
DrainNotNewer(imu, cloud) == imu.time <= cloud.time

\* line 72: whether the popped raw sample is propagated before the correction
DrainDue(imu, cloud) == imu.time < cloud.time

\* (mutant) a complete triple is taken to the initialization again
UninitOrLidar == ~HasInited \/ HasLidarData

\* line 62: which branch of the loop body is taken
UninitBranch == ~HasInited

\* Filtering::HasInited() after an Init call that returned ok
InitedAfterInit(ok) == has_inited \/ ok

\* The synced channels are fed frame by frame, a frame every FramePeriod: the
\* samples of one frame carry the frame's stamp and at most one of the three
\* subscribers misses a frame.  A batch of frames: for each frame from lo on,
\* the channels that received it (none: the frame is not in this batch).
FrameChannels ==
    {m \in SUBSET {"cloud", "gnss", "synced"} : Cardinality(m) # 1}

FrameBatches(lo) == [lo..MaxFrame -> FrameChannels]

\* the stamps channel ch receives from the batch fb, frames f and later
RECURSIVE FrameStamps(_, _, _)
FrameStamps(fb, ch, f) ==
    IF f > MaxFrame THEN << >>
    ELSE (IF ch \in fb[f] THEN << FramePeriod * f >> ELSE << >>)
             \o FrameStamps(fb, ch, f + 1)

\* the frame after the last frame of the batch fb (lo: the batch is empty)
NextFrame(fb, lo) ==
    IF \A f \in DOMAIN fb : fb[f] = {} THEN lo
    ELSE 1 + CHOOSE f \in DOMAIN fb :
                 fb[f] # {} /\ \A u \in DOMAIN fb : fb[u] # {} => u <= f

\* ReadData: every subscriber appends its new samples to its buffer
ReadData ==
    \E tr \in RawBatches(MaxRaw - produced["raw"].n, produced["raw"].t),
       fb \in FrameBatches(produced["cloud"].t) :
        LET tc == FrameStamps(fb, "cloud", produced["cloud"].t)
            tg == FrameStamps(fb, "gnss", produced["cloud"].t)
            ts == FrameStamps(fb, "synced", produced["cloud"].t)
            nf == NextFrame(fb, produced["cloud"].t)
        IN
        /\ imu_raw_data_buff' =
               imu_raw_data_buff \o Stamp(tr, produced["raw"].n)
        /\ cloud_data_buff' =
               cloud_data_buff \o Stamp(tc, produced["cloud"].n)
        /\ gnss_data_buff' =
               gnss_data_buff \o Stamp(tg, produced["gnss"].n)
        /\ imu_synced_data_buff' =
               imu_synced_data_buff \o Stamp(ts, produced["synced"].n)
        /\ produced' =
               [ch \in Channels |->
                   CASE ch = "raw" ->
                          [n |-> produced[ch].n + Len(tr),
                           t |-> IF tr = << >> THEN produced[ch].t
                                 ELSE tr[Len(tr)] + 1]
                     [] ch = "cloud" ->
                          [n |-> produced[ch].n + Len(tc), t |-> nf]
                     [] ch = "gnss" ->
                          [n |-> produced[ch].n + Len(tg), t |-> nf]
                     [] OTHER ->
                          [n |-> produced[ch].n + Len(ts), t |-> nf]]

\* (mutant) the transform is looked up by every Run
LookupAlways == TRUE

\* line 184: whether InitCalibration calls LookupData
LookupDue == ~calibration_received

\* the positions of Run at which a buffer's front is read
\* lines 63 and 68: ValidLidarData is the next call
CallsValidLidarData ==
    /\ pc = "loop"
    /\ HasData
    /\ (UninitBranch \/ HasLidarData)

\* lines 71 and 87: ValidIMUData is the next call
CallsValidIMUData ==
    \/ pc = "drain" /\ HasIMUData
    \/ pc = "tail" /\ HasIMUData
    \/ /\ pc = "loop"
       /\ HasData
       /\ ~UninitBranch
       /\ ~HasLidarData
       /\ HasIMUData

\* line 231: the discard loop reads the front of the raw buffer
ReadsRawFront == pc = "discard" /\ HasIMUData

\* (mutant) the buffers are filled before the calibration is looked up
RunNoCalibrationReads ==
    /\ pc = "idle"
    /\ ~calibration_received
    /\ lookups < MaxLookup
    /\ lookups' = lookups + 1
    /\ ReadData
    /\ out' = << >>
    /\ called' = << >>
    /\ UNCHANGED << currents, calibration_received, lidar_to_imu,
                    has_inited, filter_time,
                    pc, history >>

\* Run while the calibration lookup fails: return false at once
RunNoCalibration ==
    /\ pc = "idle"
    /\ ~calibration_received
    /\ lookups < MaxLookup
    /\ lookups' = lookups + 1
    /\ out' = << >>
    /\ called' = << >>
    /\ UNCHANGED << buffs, currents, calibration_received, lidar_to_imu,
                    has_inited,
                    filter_time, pc, produced, history >>

\* Run with the calibration resolved, by a LookupData call that succeeds now or
\* by an earlier Run: the maps, ReadData, and into the loop
RunBegin ==
    /\ pc = "idle"
    /\ IF LookupDue
       THEN /\ lookups' = lookups + 1
            /\ lidar_to_imu' = lookups + 1
            /\ calibration_received' = TRUE
       ELSE UNCHANGED << lookups, lidar_to_imu, calibration_received >>
    /\ ReadData
    /\ pc' = "loop"
    /\ out' = PublishMaps
    /\ called' = << >>
    /\ UNCHANGED << currents, has_inited, filter_time, history >>

\* while (HasData()) is false: Run returns true
LoopExit ==
    /\ pc = "loop"
    /\ ~HasData
    /\ pc' = "idle"
    /\ out' = << >>
    /\ called' = << >>
    /\ UNCHANGED << buffs, currents, calibration_received, lidar_to_imu,
                    has_inited,
                    filter_time, produced, lookups, history >>

\* uninitialized branch: ValidLidarData, then InitLocalization if it is valid
LoopUninit ==
    /\ pc = "loop"
    /\ HasData
    /\ UninitBranch
    /\ \E result \in BOOLEAN :
        /\ ValidLidarData(result)
        /\ pc' = IF result THEN "init" ELSE "loop"
        /\ init_runs' = IF result THEN init_runs + 1 ELSE init_runs
    /\ out' = << >>
    /\ called' = << >>
    /\ UNCHANGED << imu_raw_data_buff, current_imu_raw_data,
                    calibration_received, lidar_to_imu,
                    has_inited, filter_time, produced,
                    lookups, updated, discarded, init_primary, init_fallback,
                    lidar_used, drain_start >>

\* InitLocalization, lines 198-204: the scan-based Init
InitPrimary ==
    /\ pc = "init"
    /\ \E ok \in BOOLEAN :
        /\ init_primary' = IF ok THEN "true" ELSE "false"
        /\ has_inited' = InitedAfterInit(ok)
        /\ filter_time' = IF ok THEN current_imu_synced_data.time
                          ELSE filter_time
        /\ pc' = IF FallbackDue(ok) THEN "fallback" ELSE "discard"
        /\ called' = << FilterCall("Init", current_cloud_data, ok) >>
    /\ lidar_used' = Append(lidar_used, current_cloud_data.id)
    /\ out' = << >>
    /\ UNCHANGED << buffs, currents, calibration_received, lidar_to_imu,
                    produced, lookups,
                    updated, discarded, init_fallback, init_runs, drain_start,
                    last_valid >>

\* InitLocalization, lines 218-227: the fallback Init from the gnss pose
InitFallback ==
    /\ pc = "fallback"
    /\ init_fallback' = TRUE
    /\ has_inited' = InitedAfterInit(TRUE)
    /\ filter_time' = current_imu_synced_data.time
    /\ pc' = "discard"
    /\ out' = << >>
    /\ called' = << FilterCall("InitGnss", current_gnss_data, TRUE) >>
    /\ UNCHANGED << buffs, currents, calibration_received, lidar_to_imu,
                    produced, lookups,
                    updated, discarded, init_primary, init_runs, lidar_used, drain_start,
                    last_valid >>

\* InitLocalization, lines 229-236: the discard loop, and the return
InitDiscard ==
    /\ pc = "discard"
    /\ imu_raw_data_buff' =
           DiscardOlder(imu_raw_data_buff, current_imu_synced_data.time)
    /\ discarded' = discarded \cup
           (Ids(imu_raw_data_buff) \ Ids(imu_raw_data_buff'))
    /\ init_primary' = "none"
    /\ init_fallback' = FALSE
    /\ pc' = "loop"
    /\ out' = << >>
    /\ called' = << >>
    /\ UNCHANGED << cloud_data_buff, gnss_data_buff, imu_synced_data_buff,
                    currents, calibration_received, lidar_to_imu,
                    has_inited, filter_time,
                    produced, lookups, updated, init_runs, lidar_used, drain_start,
                    last_valid >>

\* line 87: one more raw sample, if any, is popped and propagated
TailUpdate ==
    IF HasIMUData
    THEN LET imu == Head(imu_raw_data_buff)
         IN  /\ current_imu_raw_data' = imu
             /\ imu_raw_data_buff' = Tail(imu_raw_data_buff)
             /\ filter_time' = FilterTimeAfterUpdate(imu)
             /\ updated' = Append(updated, imu)
             /\ out' = UpdateLocalizationOut(imu)
             /\ called' = UpdateLocalizationCalls(imu)
    ELSE /\ out' = << >>
         /\ called' = << >>
         /\ UNCHANGED << current_imu_raw_data, imu_raw_data_buff, filter_time,
                         updated >>

\* initialized branch, no complete triple buffered: line 68 fails, then line 87
LoopNoLidar ==
    /\ pc = "loop"
    /\ HasData
    /\ ~UninitBranch
    /\ ~HasLidarData
    /\ TailUpdate
    /\ pc' = "loop"
    /\ UNCHANGED << cloud_data_buff, gnss_data_buff, imu_synced_data_buff,
                    current_cloud_data, current_gnss_data,
                    current_imu_synced_data, calibration_received, lidar_to_imu,
                    has_inited,
                    produced, lookups, discarded, init_primary, init_fallback, init_runs, lidar_used, drain_start,
                    last_valid >>

\* initialized branch, ValidLidarData returns false: then line 87
LoopInvalid ==
    /\ pc = "loop"
    /\ HasData
    /\ ~UninitBranch
    /\ HasLidarData
    /\ ValidLidarData(FALSE)
    /\ TailUpdate
    /\ pc' = "loop"
    /\ UNCHANGED << calibration_received, lidar_to_imu,
                    has_inited, produced, lookups,
                    discarded, init_primary, init_fallback, init_runs, lidar_used, drain_start >>

\* initialized branch, ValidLidarData returns true: on to the drain
LoopValid ==
    /\ pc = "loop"
    /\ HasData
    /\ ~UninitBranch
    /\ HasLidarData
    /\ ValidLidarData(TRUE)
    /\ pc' = IF HasIMUData THEN "drain" ELSE "correct"
    /\ drain_start' = Len(updated)
    /\ out' = << >>
    /\ called' = << >>
    /\ UNCHANGED << imu_raw_data_buff, current_imu_raw_data,
                    calibration_received, lidar_to_imu,
                    has_inited, filter_time, produced,
                    lookups, updated, discarded, init_primary, init_fallback, init_runs, lidar_used >>

\* one test of the drain loop's condition that pops a sample older than the triple
DrainUpdate ==
    /\ pc = "drain"
    /\ HasIMUData
    /\ DrainDue(Head(imu_raw_data_buff), current_cloud_data)
    /\ current_imu_raw_data' = Head(imu_raw_data_buff)
    /\ imu_raw_data_buff' = Tail(imu_raw_data_buff)
    /\ filter_time' = FilterTimeAfterUpdate(Head(imu_raw_data_buff))
    /\ updated' = Append(updated, Head(imu_raw_data_buff))
    /\ out' = UpdateLocalizationOut(Head(imu_raw_data_buff))
    /\ called' = UpdateLocalizationCalls(Head(imu_raw_data_buff))
    /\ UNCHANGED << cloud_data_buff, gnss_data_buff, imu_synced_data_buff,
                    current_cloud_data, current_gnss_data,
                    current_imu_synced_data, calibration_received, lidar_to_imu,
                    has_inited,
                    pc, produced, lookups, discarded, init_primary, init_fallback, init_runs, lidar_used, drain_start,
                    last_valid >>

\* the drain loop ends on a popped sample not older than the triple; lines 77-81
DrainStop ==
    /\ pc = "drain"
    /\ HasIMUData
    /\ ~DrainDue(Head(imu_raw_data_buff), current_cloud_data)
    /\ current_imu_raw_data' = Head(imu_raw_data_buff)
    /\ imu_raw_data_buff' =
           IF PutBackDue(Head(imu_raw_data_buff), current_cloud_data)
           THEN PutBack(Tail(imu_raw_data_buff), Head(imu_raw_data_buff))
           ELSE Tail(imu_raw_data_buff)
    /\ pc' = "correct"
    /\ out' = << >>
    /\ called' = << >>
    /\ UNCHANGED << cloud_data_buff, gnss_data_buff, imu_synced_data_buff,
                    current_cloud_data, current_gnss_data,
                    current_imu_synced_data, calibration_received, lidar_to_imu,
                    has_inited,
                    filter_time, produced, lookups, history >>

\* the drain loop ends on an empty buffer; lines 77-81 test the last sample popped
DrainEmpty ==
    /\ pc = "drain"
    /\ ~HasIMUData
    /\ imu_raw_data_buff' =
           IF PutBackDue(current_imu_raw_data, current_cloud_data)
           THEN PutBack(imu_raw_data_buff, current_imu_raw_data)
           ELSE imu_raw_data_buff
    /\ pc' = "correct"
    /\ out' = << >>
    /\ called' = << >>
    /\ UNCHANGED << cloud_data_buff, gnss_data_buff, imu_synced_data_buff,
                    currents, calibration_received, lidar_to_imu,
                    has_inited, filter_time,
                    produced, lookups, history >>

\* CorrectLocalization: Filtering::Correct on the validated triple
CorrectLocalization ==
    /\ pc = "correct"
    /\ pc' = "tail"
    /\ drain_start' = 0
    /\ lidar_used' = Append(lidar_used, current_cloud_data.id)
    /\ \E ok \in BOOLEAN :
        /\ out' = CorrectLocalizationOut(ok)
        /\ called' = << FilterCall("Correct", current_cloud_data, ok) >>
    /\ UNCHANGED << buffs, currents, calibration_received, lidar_to_imu,
                    has_inited,
                    filter_time, produced, lookups, updated, discarded,
                    init_primary, init_fallback, init_runs, last_valid >>

\* line 87 after a correction
TailAfterCorrect ==
    /\ pc = "tail"
    /\ TailUpdate
    /\ pc' = "loop"
    /\ UNCHANGED << cloud_data_buff, gnss_data_buff, imu_synced_data_buff,
                    current_cloud_data, current_gnss_data,
                    current_imu_synced_data, calibration_received, lidar_to_imu,
                    has_inited,
                    produced, lookups, discarded, init_primary, init_fallback, init_runs, lidar_used, drain_start,
                    last_valid >>

Init ==
    /\ imu_raw_data_buff = << >>
    /\ cloud_data_buff = << >>
    /\ gnss_data_buff = << >>
    /\ imu_synced_data_buff = << >>
    /\ current_imu_raw_data = NoSample
    /\ current_cloud_data = NoSample
    /\ current_gnss_data = NoSample
    /\ current_imu_synced_data = NoSample
    /\ calibration_received = FALSE
    /\ lidar_to_imu = 0
    /\ has_inited = FALSE
    /\ filter_time = 0
    /\ pc = "idle"
    /\ produced = [ch \in Channels |-> [n |-> 0, t |-> 0]]
    /\ lookups = 0
    /\ updated = << >>
    /\ discarded = {}
    /\ init_primary = "none"
    /\ init_fallback = FALSE
    /\ init_runs = 0
    /\ lidar_used = << >>
    /\ drain_start = 0
    /\ last_valid = "none"
    /\ out = << >>
    /\ called = << >>

Next ==
    \/ RunNoCalibration
    \/ RunBegin
    \/ LoopExit
    \/ LoopUninit
    \/ InitPrimary
    \/ InitFallback
    \/ InitDiscard
    \/ LoopNoLidar
    \/ LoopInvalid
    \/ LoopValid
    \/ DrainUpdate
    \/ DrainStop
    \/ DrainEmpty
    \/ CorrectLocalization
    \/ TailAfterCorrect

Spec == Init /\ [][Next]_vars

\* Run is sequential code: once entered, its loop keeps taking steps until it
\* returns; when the node calls Run again is left open.
LoopStep ==
    \/ LoopExit
    \/ LoopUninit
    \/ InitPrimary
    \/ InitFallback
    \/ InitDiscard
    \/ LoopNoLidar
    \/ LoopInvalid
    \/ LoopValid
    \/ DrainUpdate
    \/ DrainStop
    \/ DrainEmpty
    \/ CorrectLocalization
    \/ TailAfterCorrect

SpecLoop == Spec /\ WF_vars(LoopStep)

\* ------------------------------------------------------------ the synchronizer
\* ValidLidarData called again and again on three buffers of any contents, as
\* the loop does while the call returns false.
SyncBuffers ==
    {Stamp(ts, 0) : ts \in TimeSeqs(MaxSyncLen, 0, MaxSyncTime)}

InitSync ==
    /\ imu_raw_data_buff = << >>
    /\ cloud_data_buff \in SyncBuffers
    /\ gnss_data_buff \in SyncBuffers
    /\ imu_synced_data_buff \in SyncBuffers
    /\ current_imu_raw_data = NoSample
    /\ current_cloud_data = NoSample
    /\ current_gnss_data = NoSample
    /\ current_imu_synced_data = NoSample
    /\ calibration_received = TRUE
    /\ lidar_to_imu = 1
    /\ has_inited = FALSE
    /\ filter_time = 0
    /\ pc = "sync"
    /\ produced = [ch \in Channels |-> [n |-> 0, t |-> 0]]
    /\ lookups = 1
    /\ updated = << >>
    /\ discarded = {}
    /\ init_primary = "none"
    /\ init_fallback = FALSE
    /\ init_runs = 0
    /\ lidar_used = << >>
    /\ drain_start = 0
    /\ last_valid = "none"
    /\ out = << >>
    /\ called = << >>

SyncCall(result) ==
    /\ pc = "sync"
    /\ HasLidarData
    /\ ValidLidarData(result)
    /\ UNCHANGED << imu_raw_data_buff, current_imu_raw_data,
                    calibration_received, lidar_to_imu,
                    has_inited, filter_time, pc,
                    produced, lookups, updated, discarded, init_primary,
                    init_fallback, init_runs, lidar_used, drain_start, out, called >>

SyncValid == SyncCall(TRUE)

SyncInvalid == SyncCall(FALSE)

NextSync == SyncValid \/ SyncInvalid

SpecSync == InitSync /\ [][NextSync]_vars

\* ------------------------------------------------------------ the uninitialized loop
\* The loop of Run entered with the filter uninitialized, on triple buffers of
\* any time-ordered contents, up to the return of InitLocalization or of Run.
InitUninit ==
    /\ imu_raw_data_buff = << >>
    /\ cloud_data_buff \in SyncBuffers
    /\ gnss_data_buff \in SyncBuffers
    /\ imu_synced_data_buff \in SyncBuffers
    /\ current_imu_raw_data = NoSample
    /\ current_cloud_data = NoSample
    /\ current_gnss_data = NoSample
    /\ current_imu_synced_data = NoSample
    /\ calibration_received = TRUE
    /\ lidar_to_imu = 1
    /\ has_inited = FALSE
    /\ filter_time = 0
    /\ pc = "loop"
    /\ produced = [ch \in Channels |-> [n |-> 0, t |-> 0]]
    /\ lookups = 1
    /\ updated = << >>
    /\ discarded = {}
    /\ init_primary = "none"
    /\ init_fallback = FALSE
    /\ init_runs = 0
    /\ lidar_used = << >>
    /\ drain_start = 0
    /\ last_valid = "none"
    /\ out = << >>
    /\ called = << >>

NextUninit ==
    \/ LoopUninit
    \/ InitPrimary
    \/ InitFallback
    \/ InitDiscard
    \/ LoopExit

SpecUninit == InitUninit /\ [][NextUninit]_vars /\ WF_vars(NextUninit)

\* ------------------------------------------------------------ claims
Abs(x) == IF x < 0 THEN -x ELSE x

Aligned(c, g, s) ==
    Abs(c.time - g.time) <= Tol /\ Abs(c.time - s.time) <= Tol

Sorted(buff) == NonDecreasing(Times(buff))

\* C1: called with the three buffers non-empty, ValidLidarData returns true if
\* and only if the cloud front is within Tol of the gnss front and of the
\* synced front (exactly Tol counts as within), and a call returning true
\* removes the front of each of the three buffers and nothing else.
C1_ValidIffAligned ==
    [][(pc = "sync" /\ HasLidarData) =>
          LET c == Head(cloud_data_buff)
              g == Head(gnss_data_buff)
              s == Head(imu_synced_data_buff)
          IN  /\ (last_valid' = "valid") <=> Aligned(c, g, s)
              /\ last_valid' = "valid" =>
                    /\ cloud_data_buff' = Tail(cloud_data_buff)
                    /\ gnss_data_buff' = Tail(gnss_data_buff)
                    /\ imu_synced_data_buff' = Tail(imu_synced_data_buff)
                    /\ imu_raw_data_buff' = imu_raw_data_buff]_vars

\* a call returned true on fronts exactly Tol apart, in both directions
C1_Witness ==
    /\ pc = "sync"
    /\ last_valid = "valid"
    /\ current_cloud_data.time - current_gnss_data.time = Tol
    /\ current_cloud_data.time - current_imu_synced_data.time = -Tol

\* C2: a ValidLidarData call that returns false removes exactly one sample
\* across the three buffers: the front that is the older member of a pair
\* (cloud, companion) more than Tol apart; the other two buffers are unchanged.
C2_InvalidDropsOlder ==
    [][(pc = "sync" /\ HasLidarData /\ last_valid' = "invalid") =>
          LET c == Head(cloud_data_buff)
              g == Head(gnss_data_buff)
              s == Head(imu_synced_data_buff)
          IN  \/ /\ cloud_data_buff' = Tail(cloud_data_buff)
                 /\ gnss_data_buff' = gnss_data_buff
                 /\ imu_synced_data_buff' = imu_synced_data_buff
                 /\ (c.time + Tol < g.time \/ c.time + Tol < s.time)
              \/ /\ gnss_data_buff' = Tail(gnss_data_buff)
                 /\ cloud_data_buff' = cloud_data_buff
                 /\ imu_synced_data_buff' = imu_synced_data_buff
                 /\ g.time + Tol < c.time
              \/ /\ imu_synced_data_buff' = Tail(imu_synced_data_buff)
                 /\ cloud_data_buff' = cloud_data_buff
                 /\ gnss_data_buff' = gnss_data_buff
                 /\ s.time + Tol < c.time]_vars

\* a call returned false with the companions out of the window in opposite
\* directions: gnss too old, synced too new
C2_Witness ==
    /\ pc = "sync"
    /\ last_valid = "invalid"
    /\ current_gnss_data.time + Tol < current_cloud_data.time
    /\ current_cloud_data.time + Tol < current_imu_synced_data.time

\* C3 (as claimed): the loop never changes the relative order of the samples
\* in the raw buffer, and the samples passed to Update have non-decreasing
\* timestamps.
C3_RawFifo ==
    /\ \A i, j \in 1..Len(imu_raw_data_buff) :
           i < j => imu_raw_data_buff[i].id < imu_raw_data_buff[j].id
    /\ NonDecreasing(Times(updated))

\* C4 (as claimed): when Correct runs for a triple stamped T, no raw sample
\* stamped before T is still in the raw buffer.
C4_DrainedBeforeCorrect ==
    pc = "correct" =>
        \A i \in 1..Len(imu_raw_data_buff) :
            imu_raw_data_buff[i].time >= current_cloud_data.time

\* C5 (as claimed): when Correct runs for a triple stamped T, every raw sample
\* passed to Update so far is stamped before T.
C5_AllUpdatedOlder ==
    pc = "correct" =>
        \A i \in 1..Len(updated) : updated[i].time < current_cloud_data.time

\* C5 (amended): when Correct runs for a triple stamped T, every raw sample
\* passed to Update by the drain that precedes it is stamped before T.
C5_DrainedOlder ==
    pc = "correct" =>
        \A i \in (drain_start + 1)..Len(updated) :
            updated[i].time < current_cloud_data.time

\* Correct is about to run after a drain that propagated a sample, while an
\* earlier Update took a sample not older than the triple
C5_Witness ==
    /\ pc = "correct"
    /\ Len(updated) > drain_start
    /\ \E i \in 1..drain_start : updated[i].time >= current_cloud_data.time

\* C6: every raw sample that entered the buffer is exactly one of: in the
\* buffer once, discarded by InitLocalization, passed to Update once.
C6_RawConserved ==
    /\ Cardinality(Ids(imu_raw_data_buff)) = Len(imu_raw_data_buff)
    /\ Cardinality(Ids(updated)) = Len(updated)
    /\ Ids(imu_raw_data_buff) \cap discarded = {}
    /\ Ids(imu_raw_data_buff) \cap Ids(updated) = {}
    /\ discarded \cap Ids(updated) = {}
    /\ Ids(imu_raw_data_buff) \cup discarded \cup Ids(updated)
           = 1..produced["raw"].n

\* the drain has put a sample back, after a discard and an Update
C6_Witness ==
    /\ pc = "correct"
    /\ current_imu_raw_data.id \in Ids(imu_raw_data_buff)
    /\ discarded # {}
    /\ updated # << >>

\* C7: HasInited() is false until InitLocalization runs, true from its return
\* on, and InitLocalization runs at most once.
C7_InitLatch ==
    /\ init_runs <= 1
    /\ (init_runs = 0 => ~has_inited)
    /\ (pc = "init" => ~has_inited)
    /\ (init_runs = 1 /\ pc \notin {"init", "fallback"} => has_inited)

\* a later Run is correcting on a triple, the filter still initialized
C7_Witness ==
    /\ has_inited
    /\ pc = "correct"
    /\ updated # << >>

\* C8: Filtering::Init is invoked only while HasInited() is false, the
\* scan-based Init once, the fallback Init exactly when the scan-based Init
\* returned false.
C8_InitOnce ==
    /\ init_runs <= 1
    /\ (pc \in {"init", "fallback"} => ~has_inited)
    /\ (pc = "fallback" => init_primary = "false" /\ ~init_fallback)
    /\ (pc = "discard" =>
           /\ init_primary \in {"true", "false"}
           /\ init_fallback <=> (init_primary = "false"))
    /\ (pc \notin {"fallback", "discard"} =>
           init_primary = "none" /\ ~init_fallback)

\* the scan-based Init succeeded and InitLocalization goes on without fallback
C8_Witness ==
    /\ pc = "discard"
    /\ init_primary = "true"
    /\ ~init_fallback
    /\ has_inited

\* C9: when InitLocalization returns, on a raw buffer that was in
\* non-decreasing order, the buffer holds exactly the samples not older than
\* the seeding synced sample, in their order.
C9_DiscardPreInit ==
    [][(pc = "discard" /\ pc' = "loop" /\ Sorted(imu_raw_data_buff)) =>
          LET NotOlder(x) == x.time >= current_imu_synced_data.time
          IN  imu_raw_data_buff' = SelectSeq(imu_raw_data_buff, NotOlder)]_vars

\* InitLocalization has returned: it discarded a sample and kept one stamped
\* as the seeding sample
C9_Witness ==
    /\ pc = "loop"
    /\ init_runs = 1
    /\ updated = << >>
    /\ out = << >>
    /\ discarded # {}
    /\ imu_raw_data_buff # << >>
    /\ Head(imu_raw_data_buff).time = current_imu_synced_data.time

\* C10: while the calibration lookup has not succeeded, Run has left the
\* pipeline untouched (nothing read, popped, initialized, propagated or
\* published), and the next Run looks the calibration up again.
C10_BlockedUntilCalibrated ==
    ~calibration_received =>
        /\ pc = "idle"
        /\ imu_raw_data_buff = << >>
        /\ cloud_data_buff = << >>
        /\ gnss_data_buff = << >>
        /\ imu_synced_data_buff = << >>
        /\ produced = [ch \in Channels |-> [n |-> 0, t |-> 0]]
        /\ currents = << NoSample, NoSample, NoSample, NoSample >>
        /\ ~has_inited
        /\ init_runs = 0
        /\ lidar_used = << >>
        /\ updated = << >>
        /\ discarded = {}
        /\ last_valid = "none"
        /\ out = << >>
        /\ called = << >>
        /\ ENABLED RunBegin

\* Run has failed on the lookup twice
C10_Witness ==
    /\ ~calibration_received
    /\ lookups >= 2

\* C11: once a LookupData call has succeeded, calibration_received stays true,
\* every later Run passes InitCalibration without a LookupData call, and
\* lidar_to_imu_ keeps the value that call wrote.
C11_CalibratedOnce ==
    [][calibration_received =>
          /\ calibration_received'
          /\ lookups' = lookups
          /\ lidar_to_imu' = lidar_to_imu
          /\ lidar_to_imu = lookups
          /\ (pc = "idle" => pc' = "loop")]_vars

\* a Run has begun after the Run whose lookup, the second one, succeeded
C11_Witness ==
    /\ calibration_received
    /\ lidar_to_imu = 2
    /\ pc = "loop"
    /\ out = PublishMaps
    /\ has_inited

\* samples held in the four buffers
Total ==
    Len(imu_raw_data_buff) + Len(cloud_data_buff) + Len(gnss_data_buff)
        + Len(imu_synced_data_buff)

\* C12: the loop of Run terminates.  No step of the loop body adds a sample to
\* the buffers (the put-back of line 80 returns a sample the drain popped), and
\* the first step of every iteration, in the uninitialized and in the
\* initialized branch, removes at least one: each iteration strictly decreases
\* the number of buffered samples, and the loop reaches the return of Run.
C12_LoopTerminates ==
    /\ [][/\ pc # "idle" => Total' <= Total
          /\ (pc = "loop" /\ HasData) => Total' < Total]_vars
    /\ (pc = "loop") ~> (pc = "idle")

\* the loop has run out of data after a put-back that changed the order in
\* which the raw samples were propagated
C12_Witness ==
    /\ pc = "loop"
    /\ ~HasData
    /\ has_inited
    /\ ~NonDecreasing(Times(updated))

\* C13: when Run has returned true, one of the cloud, gnss and synced buffers
\* is empty and, if the filter is initialized, the raw buffer is empty too: the
\* loop does not stop on a buffered raw sample or a buffered complete triple.
C13_ExitOnlyExhausted ==
    (pc = "idle" /\ calibration_received) =>
        /\ (\/ cloud_data_buff = << >>
            \/ gnss_data_buff = << >>
            \/ imu_synced_data_buff = << >>)
        /\ (has_inited => imu_raw_data_buff = << >>)

\* Run has returned with the filter initialized, samples propagated, and an
\* incomplete triple left in the buffers
C13_Witness ==
    /\ pc = "idle"
    /\ has_inited
    /\ updated # << >>
    /\ cloud_data_buff # << >>
    /\ gnss_data_buff # << >>

\* the cloud front is more than Tol ahead of the synced front, the gnss front
\* within Tol of the cloud front
CloudAheadOfSynced ==
    /\ HasLidarData
    /\ Head(cloud_data_buff).time - Head(imu_synced_data_buff).time > Tol
    /\ Abs(Head(cloud_data_buff).time - Head(gnss_data_buff).time) <= Tol

\* C14: with the cloud front more than Tol ahead of the synced front and the
\* gnss front within Tol, ValidLidarData drops the synced front only and
\* returns false; if the synced buffer holds a sample within Tol of the cloud
\* front, the next call meets the same cloud front either still ahead of the
\* synced front (and drops again) or within Tol of it, and then returns true.
C14_SyncedCatchesUp ==
    [][(pc = "sync" /\ CloudAheadOfSynced) =>
          LET c == Head(cloud_data_buff)
          IN  /\ last_valid' = "invalid"
              /\ imu_synced_data_buff' = Tail(imu_synced_data_buff)
              /\ cloud_data_buff' = cloud_data_buff
              /\ gnss_data_buff' = gnss_data_buff
              /\ (\E i \in 1..Len(imu_synced_data_buff) :
                      Abs(c.time - imu_synced_data_buff[i].time) <= Tol)
                 => /\ imu_synced_data_buff' # << >>
                    /\ \/ CloudAheadOfSynced'
                       \/ Verdict(c, Head(gnss_data_buff'),
                                  Head(imu_synced_data_buff')) = "valid"]_vars

\* the first cloud and gnss samples were accepted with the second synced
\* sample, Tol older than the cloud: the first synced sample was dropped
C14_Witness ==
    /\ pc = "sync"
    /\ last_valid = "valid"
    /\ current_cloud_data.id = 1
    /\ current_gnss_data.id = 1
    /\ current_imu_synced_data.id = 2
    /\ current_cloud_data.time - current_imu_synced_data.time = Tol

\* C15 (as claimed): with a companion front (gnss or synced) more than Tol
\* behind the cloud front, ValidLidarData drops the cloud front and returns
\* false.
C15_BehindDropsCloud ==
    [][(/\ pc = "sync"
        /\ HasLidarData
        /\ \/ Head(gnss_data_buff).time + Tol < Head(cloud_data_buff).time
           \/ Head(imu_synced_data_buff).time + Tol
                  < Head(cloud_data_buff).time)
       => /\ cloud_data_buff' = Tail(cloud_data_buff)
          /\ last_valid' = "invalid"]_vars

\* C15 (amended): ValidLidarData drops the cloud front and returns false when
\* a companion front is more than Tol ahead of it.  With a companion front
\* more than Tol behind the cloud front the call returns false as well, and
\* unless a companion is ahead it keeps the cloud front and drops the
\* companion that is behind, the gnss front first.
C15_AheadDropsCloud ==
    [][(pc = "sync" /\ HasLidarData) =>
          LET c == Head(cloud_data_buff).time
              g == Head(gnss_data_buff).time
              i == Head(imu_synced_data_buff).time
              ahead == g > c + Tol \/ i > c + Tol
              behind == g + Tol < c \/ i + Tol < c
          IN  /\ ahead =>
                    /\ last_valid' = "invalid"
                    /\ cloud_data_buff' = Tail(cloud_data_buff)
                    /\ gnss_data_buff' = gnss_data_buff
                    /\ imu_synced_data_buff' = imu_synced_data_buff
              /\ behind => last_valid' = "invalid"
              /\ (behind /\ ~ahead) =>
                    /\ cloud_data_buff' = cloud_data_buff
                    /\ IF g + Tol < c
                       THEN /\ gnss_data_buff' = Tail(gnss_data_buff)
                            /\ imu_synced_data_buff' = imu_synced_data_buff
                       ELSE /\ gnss_data_buff' = gnss_data_buff
                            /\ imu_synced_data_buff' =
                                   Tail(imu_synced_data_buff)]_vars

\* a call returned false on a gnss front more than Tol behind the cloud front:
\* the cloud sample is still the front of its buffer, the gnss sample is gone
C15_Witness ==
    /\ pc = "sync"
    /\ last_valid = "invalid"
    /\ current_gnss_data.time + Tol < current_cloud_data.time
    /\ cloud_data_buff # << >>
    /\ Head(cloud_data_buff).id = current_cloud_data.id
    /\ current_gnss_data.id \notin Ids(gnss_data_buff)

\* publications of the step on a sink
Published(sink) ==
    LET OnSink(e) == e.sink = sink
    IN  Len(SelectSeq(out, OnSink))

\* calls of the step among the operations ops
Calls(ops) ==
    LET OfOps(c) == c.op \in ops
    IN  SelectSeq(called, OfOps)

\* C16: every Filtering::Correct call is followed at once, with no other
\* Filtering call between, by one publication of the lidar pose stamped with
\* the cloud of the triple, whether Correct returned true or false, and the
\* loop goes on (to line 87); the lidar pose is published at no other time.
C16_LidarPoseAfterCorrect ==
    /\ Published("laser_odom") = Len(Calls({"Correct"}))
    /\ Calls({"Correct"}) # << >> =>
           /\ Len(called) = 1
           /\ called[1].id = current_cloud_data.id
           /\ out[1] = [sink |-> "laser_odom", time |-> current_cloud_data.time]
           /\ pc = "tail"

\* Correct returned false: the lidar pose, and only it, was published, and the
\* loop is at line 87 with a raw sample to propagate
C16_Witness ==
    /\ Len(called) = 1
    /\ called[1].op = "Correct"
    /\ ~called[1].ret
    /\ out = << LidarOdom(current_cloud_data) >>
    /\ pc = "tail"
    /\ HasIMUData

\* C17: the fused pose is published once for every Update or Correct call
\* that returned true and not for one that returned false, and never while
\* the filter is uninitialized.
C17_FusedPoseOnSuccess ==
    LET Succeeded(c) == c.ret
    IN  /\ Published("fused_odom")
               = Len(SelectSeq(Calls({"Update", "Correct"}), Succeeded))
        /\ ~has_inited => Published("fused_odom") = 0

\* Update returned false on a sample older than the filter's clock, and
\* nothing was published
C17_Witness ==
    /\ Len(called) = 1
    /\ called[1].op = "Update"
    /\ ~called[1].ret
    /\ out = << >>

\* the aligned triples among the buffered samples, as positions in the buffers
AlignedTriples ==
    {t \in (DOMAIN cloud_data_buff) \X (DOMAIN gnss_data_buff)
               \X (DOMAIN imu_synced_data_buff) :
        Aligned(cloud_data_buff[t[1]], gnss_data_buff[t[2]],
                imu_synced_data_buff[t[3]])}

\* C18: in the uninitialized loop, on time-ordered buffers, a ValidLidarData
\* call that returns false drops no sample of an aligned triple of the
\* buffers, and one that returns true takes an aligned triple whose cloud is
\* no later than the cloud of any aligned triple; the loop does not return
\* while the buffers hold an aligned triple, and from a loop entered with an
\* aligned triple buffered the filter gets initialized.
C18_InitOnFirstAligned ==
    /\ [][(pc = "loop" /\ ~has_inited /\ HasLidarData) =>
             /\ last_valid' = "invalid" =>
                   \A t \in AlignedTriples :
                       /\ cloud_data_buff[t[1]].id \in Ids(cloud_data_buff')
                       /\ gnss_data_buff[t[2]].id \in Ids(gnss_data_buff')
                       /\ imu_synced_data_buff[t[3]].id
                              \in Ids(imu_synced_data_buff')
             /\ last_valid' = "valid" =>
                   /\ pc' = "init"
                   /\ Aligned(current_cloud_data', current_gnss_data',
                              current_imu_synced_data')
                   /\ \A t \in AlignedTriples :
                          current_cloud_data'.id <= cloud_data_buff[t[1]].id
             /\ AlignedTriples # {} => pc' # "idle"]_vars
    /\ (pc = "loop" /\ ~has_inited /\ AlignedTriples # {}) ~> has_inited

\* the filter was initialized on the second cloud and synced samples with the
\* first gnss sample, each companion Tol away from the cloud
C18_Witness ==
    /\ has_inited
    /\ current_cloud_data.id = 2
    /\ current_gnss_data.id = 1
    /\ current_imu_synced_data.id = 2
    /\ current_cloud_data.time - current_gnss_data.time = Tol
    /\ current_imu_synced_data.time - current_cloud_data.time = Tol

\* C19: Filtering::Update and Filtering::Correct are called only with the
\* filter initialized; while it is uninitialized the loop pops no raw sample;
\* the cloud passed to Init or to Correct is the one the last ValidLidarData
\* call accepted and popped, and no cloud is passed to Init or Correct twice.
C19_FilterAfterInitOnly ==
    [][/\ Calls({"Update", "Correct"})' # << >> => has_inited
       /\ ~has_inited =>
             /\ Len(imu_raw_data_buff') >= Len(imu_raw_data_buff)
             /\ SubSeq(imu_raw_data_buff', 1, Len(imu_raw_data_buff))
                    = imu_raw_data_buff
       /\ Calls({"Init", "Correct"})' # << >> =>
             /\ last_valid = "valid"
             /\ called'[1].id = current_cloud_data.id
             /\ current_cloud_data.id \notin Ids(cloud_data_buff)
             /\ lidar_used' = Append(lidar_used, current_cloud_data.id)
       /\ Cardinality({lidar_used'[i] : i \in 1..Len(lidar_used')})
              = Len(lidar_used')]_vars

\* Correct was called on the third cloud, after Init on the first and Correct
\* on the second
C19_Witness ==
    /\ Calls({"Correct"}) # << >>
    /\ lidar_used = << 1, 2, 3 >>
    /\ has_inited

\* C20: no buffer is read or popped while empty: ValidLidarData is called
\* only with the cloud, gnss and synced buffers all non-empty, ValidIMUData
\* only with the raw buffer non-empty, and the discard loop of
\* InitLocalization reads the raw buffer's front only when there is one.
C20_NoReadWhileEmpty ==
    /\ CallsValidLidarData =>
           /\ cloud_data_buff # << >>
           /\ gnss_data_buff # << >>
           /\ imu_synced_data_buff # << >>
    /\ CallsValidIMUData => imu_raw_data_buff # << >>
    /\ ReadsRawFront => imu_raw_data_buff # << >>

\* the loop has consumed the last triple and the last raw sample: all four
\* buffers have been popped empty
C20_Witness ==
    /\ pc = "loop"
    /\ has_inited
    /\ last_valid = "valid"
    /\ Calls({"Update"}) # << >>
    /\ imu_raw_data_buff = << >>
    /\ cloud_data_buff = << >>
    /\ gnss_data_buff = << >>
    /\ imu_synced_data_buff = << >>

=============================================================================
